---------------------------- MODULE Spec2Model ----------------------------
(***************************************************************************)
(* Model of the MJPEG stream viewers of the Camera-App repository.         *)
(*                                                                         *)
(*   advanced_stream_viewer.py  class MJPEGStream: a producer thread that  *)
(*       reads an HTTP byte stream chunk by chunk, cuts it at a multipart  *)
(*       boundary and decodes each part into self.frame; a caller thread   *)
(*       that calls start(), read() and stop().                            *)
(*   simple_stream_viewer.py    read_mjpeg_stream: a generator that cuts   *)
(*       the byte stream at the JPEG start and end markers.                *)
(*                                                                         *)
(* Bytes are the integers 0..255, a bytes object is a sequence of them,    *)
(* and indices are Python's (0-based): s[i] of the code is s[i+1] here.    *)
(***************************************************************************)
EXTENDS Integers, Sequences, FiniteSets, TLC

(***************************************************************************)
(* Bounds of the model.                                                    *)
(***************************************************************************)
\* How many times start() can be called on the one MJPEGStream object, each
\* call creating a producer thread.
MaxStarts == 2
\* The transport of a caller's session hands over Burst bytes per chunk, or
\* all the bytes in flight at once.
Burst == 12
\* The record of payloads handed to the decoder keeps its first MaxLog entries.
MaxLog == 3

Threads == 1..MaxStarts

(***************************************************************************)
(* Byte strings of the protocol.                                           *)
(***************************************************************************)
\* b"boundary="
BOUNDARY_DECL == <<98, 111, 117, 110, 100, 97, 114, 121, 61>>
\* b"\r\n"
CRLF == <<13, 10>>
\* b"--"
DASHES == <<45, 45>>
\* b"\xff\xd8", the JPEG start marker
SOI == <<255, 216>>
\* b"\xff\xd9", the JPEG end marker
EOI == <<255, 217>>
\* b"frame", the boundary token of the streams fed to the model
TokFrame == <<102, 114, 97, 109, 101>>

(***************************************************************************)
(* Python's bytes operations.                                              *)
(***************************************************************************)
Min(S) == CHOOSE x \in S : \A y \in S : x <= y

\* s[i:j] for 0 <= i and 0 <= j <= len(s); empty when i >= j
Slice(s, i, j) == SubSeq(s, i + 1, j)

\* s[i:]
SliceFrom(s, i) == SubSeq(s, i + 1, Len(s))

\* s.find(pat, from): the lowest index >= from at which pat occurs, or -1
\* (a function, so that its arguments are values when it is applied)
FindFn[s \in Seq(0..255), pat \in Seq(0..255), from \in Nat] ==
    LET hits == {i \in from..(Len(s) - Len(pat)) :
                    SubSeq(s, i + 1, i + Len(pat)) = pat}
    IN  IF hits = {} THEN -1 ELSE Min(hits)

Find(s, pat, from) == FindFn[s, pat, from]

\* pat in s
Contains(s, pat) == Find(s, pat, 0) # -1

\* buffer.split(b"boundary=")[1].split(b"\r\n")[0]: the bytes after the first
\* declaration, up to the next declaration or the end of the buffer, cut at
\* the first line terminator when there is one
BoundaryLine(buf) ==
    LET p     == Find(buf, BOUNDARY_DECL, 0)
        after == SliceFrom(buf, p + Len(BOUNDARY_DECL))
        q     == Find(after, BOUNDARY_DECL, 0)
        piece == IF q = -1 THEN after ELSE Slice(after, 0, q)
        c     == Find(piece, CRLF, 0)
    IN  IF c = -1 THEN piece ELSE Slice(piece, 0, c)

(***************************************************************************)
(* Frames and the decoder (cv2.imdecode, an external capability).          *)
(***************************************************************************)
\* self.frame = None
None == [kind |-> "none", data |-> <<>>]

\* the raster image decoded from payload jpg
Image(jpg) == [kind |-> "image", data |-> jpg]

\* What np.frombuffer + cv2.imdecode can do with a payload: return an image,
\* return None, or raise; an empty buffer always raises.
DecodeResults(jpg) ==
    IF jpg = <<>> THEN {"raise"} ELSE {"image", "none", "raise"}

\* the record of payloads handed to the decoder
LogAppend(log, x) == IF Len(log) < MaxLog THEN Append(log, x) ELSE log

(***************************************************************************)
(* The byte streams fed to the model.                                      *)
(***************************************************************************)
\* a JPEG image: start marker, one byte of content, end marker
Jpeg(x) == SOI \o <<x>> \o EOI

\* the text that declares the boundary token
Header(tok) == BOUNDARY_DECL \o tok \o CRLF

\* one part: the delimiter line, the blank line that ends the (empty) part
\* headers, and the payload
Part(tok, payload) == DASHES \o tok \o CRLF \o CRLF \o payload

\* the delimiter that closes the last part
Closing(tok) == DASHES \o tok

\* header, '--frame', part headers, one JPEG <B>, closing '--frame'
ScenarioStream == Header(TokFrame) \o Part(TokFrame, Jpeg(1)) \o Closing(TokFrame)

\* two images
TwoImageStream ==
    Header(TokFrame) \o Part(TokFrame, Jpeg(1)) \o Part(TokFrame, Jpeg(2))
        \o Closing(TokFrame)

\* a part without a start marker between the header and an image
MalformedPartStream ==
    Header(TokFrame) \o Part(TokFrame, <<7>>) \o Part(TokFrame, Jpeg(1))
        \o Closing(TokFrame)

\* the boundary token occurs once and never again
NoRecurStream == Header(TokFrame) \o Part(TokFrame, Jpeg(1)) \o Jpeg(2) \o Jpeg(3)

\* a bare concatenation of two images, no multipart wrapper
BareStream == Jpeg(1) \o Jpeg(2)

DemuxStreams ==
    {ScenarioStream, TwoImageStream, MalformedPartStream, NoRecurStream, BareStream}

\* the streams of a caller's session: multipart, ending with a delimiter
SessionStreams == {ScenarioStream, TwoImageStream}

\* what a live camera sends after a delimiter: the next part and its delimiter
LivePeriod == CRLF \o CRLF \o Jpeg(2) \o Closing(TokFrame)

\* the streams fed to the marker extractor
MarkerStreams ==
    { BareStream,
      Jpeg(1) \o Jpeg(2) \o Jpeg(3),
      EOI \o Jpeg(1),
      <<7>> \o Jpeg(1) \o <<7>> \o Jpeg(2) }

\* the embedded JPEG byte ranges of a stream built from Jpeg(1..3), in order
RECURSIVE Images(_)
Images(s) ==
    LET a == Find(s, SOI, 0)
        b == IF a = -1 THEN -1 ELSE Find(s, EOI, a + 2)
    IN  IF b = -1 THEN <<>>
        ELSE <<Slice(s, a, b + 2)>> \o Images(SliceFrom(s, b + 2))

(***************************************************************************)
(* State.                                                                  *)
(***************************************************************************)
VARIABLES
    \* --- the MJPEGStream object and its producer threads ---
    stream,      \* the bytes the server at self.url sends
    frame,       \* self.frame
    running,     \* self.running
    thread,      \* self.thread: 0 while the attribute does not exist
    nstarts,     \* how many threads start() has created
    pc,          \* per thread: unborn, connect, recv, check, extract, dead
    rest,        \* per thread: the bytes of its response not yet delivered
    chunk,       \* per thread: the chunk iter_content has just yielded
    buffer,      \* per thread: buffer
    boundary,    \* per thread: boundary, <<>> for None
    emitted,     \* per thread: the payloads handed to the decoder, in order
    cause,       \* per thread: why _read_stream ended
    \* --- the caller thread ---
    mpc,         \* idle, read2 (between read()'s two loads), join (in stop())
    rd_avail,    \* read(): the value of 'self.frame is not None'
    rd_ended,    \* read(): every producer thread had ended when it was called
    lastRead,    \* what the last completed read() returned
    liveReads,   \* the pairs read() has returned while a producer thread was alive
    \* --- history of the run ---
    everPublished,      \* some thread has assigned self.frame
    lastPub,            \* the image of the last assignment to self.frame
    pubDuringRead,      \* self.frame was assigned between the current (or last) read()'s loads
    pubSinceRead,       \* self.frame was assigned since the last read() began
    stopCleared,        \* stop() has cleared the flag and start() has not set it since
    stopReturned,       \* some stop() call has returned
    joinedStopReturned, \* some stop() call made after start() has returned
    writeAfterStop,     \* self.frame was assigned after some stop() had returned
    writeAfterJoin,     \* self.frame was assigned after a stop() made after start() had returned
    lateChunk,          \* per thread: its chunk arrived while stopCleared
    appendedLate,       \* a chunk that arrived while stopCleared was appended
    \* --- read_mjpeg_stream (simple_stream_viewer.py) ---
    m_stream,    \* the bytes the server at STREAM_URL sends
    m_pc,        \* connect, recv, ended
    m_rest,      \* the bytes of the response not yet delivered
    bytes_data,  \* bytes_data
    m_emitted,   \* the payloads (jpg) handed to the decoder, in order
    m_yielded,   \* the frames yielded, in order
    m_cause      \* why the generator ended

objVars    == <<frame, running, thread, nstarts>>
prodVars   == <<pc, rest, chunk, buffer, boundary, emitted, cause>>
callerVars == <<mpc, rd_avail, rd_ended, lastRead, liveReads>>
pubVars    == <<everPublished, lastPub, pubDuringRead, pubSinceRead, writeAfterStop,
               writeAfterJoin>>
stopVars   == <<stopCleared, stopReturned, joinedStopReturned>>
lateVars   == <<lateChunk, appendedLate>>
markerVars == <<m_stream, m_pc, m_rest, bytes_data, m_emitted, m_yielded, m_cause>>

vars == <<stream, objVars, prodVars, callerVars, pubVars, stopVars, lateVars,
          markerVars>>

\* MJPEGStream.__init__, and the history empty
InitObject ==
    /\ frame = None
    /\ running = FALSE
    /\ thread = 0
    /\ nstarts = 0
    /\ pc = [t \in Threads |-> "unborn"]
    /\ rest = [t \in Threads |-> <<>>]
    /\ chunk = [t \in Threads |-> <<>>]
    /\ buffer = [t \in Threads |-> <<>>]
    /\ boundary = [t \in Threads |-> <<>>]
    /\ emitted = [t \in Threads |-> <<>>]
    /\ cause = [t \in Threads |-> "none"]
    /\ mpc = "idle"
    /\ rd_avail = FALSE
    /\ rd_ended = FALSE
    /\ lastRead = [valid |-> FALSE, avail |-> FALSE, frame |-> None, ended |-> FALSE]
    /\ liveReads = {}
    /\ everPublished = FALSE
    /\ lastPub = None
    /\ pubDuringRead = FALSE
    /\ pubSinceRead = FALSE
    /\ stopCleared = FALSE
    /\ stopReturned = FALSE
    /\ joinedStopReturned = FALSE
    /\ writeAfterStop = FALSE
    /\ writeAfterJoin = FALSE
    /\ lateChunk = [t \in Threads |-> FALSE]
    /\ appendedLate = FALSE

\* read_mjpeg_stream() called, nothing run yet
InitMarker(s) ==
    /\ m_stream = s
    /\ m_pc = "connect"
    /\ m_rest = <<>>
    /\ bytes_data = <<>>
    /\ m_emitted = <<>>
    /\ m_yielded = <<>>
    /\ m_cause = "none"

(***************************************************************************)
(* MJPEGStream: the producer thread, _read_stream.                         *)
(***************************************************************************)
\* Finish without the finally clause: the thread ends and leaves the flag set
Finish_KeepRunning(t, why) ==
    /\ running' = running
    /\ pc' = [pc EXCEPT ![t] = "dead"]
    /\ cause' = [cause EXCEPT ![t] = why]

\* finally: self.running = False, and the thread ends
Finish(t, why) ==
    /\ running' = FALSE
    /\ pc' = [pc EXCEPT ![t] = "dead"]
    /\ cause' = [cause EXCEPT ![t] = why]

\* requests.get(...) and the status check
Connect(t) ==
    /\ pc[t] = "connect"
    /\ \E r \in {"ok", "status", "raise"} :
          IF r = "ok"
          THEN /\ pc' = [pc EXCEPT ![t] = "recv"]
               /\ rest' = [rest EXCEPT ![t] = stream]
               /\ UNCHANGED <<running, cause>>
          ELSE /\ Finish(t, r)
               /\ UNCHANGED rest
    /\ UNCHANGED <<stream, frame, thread, nstarts, chunk, buffer, boundary, emitted,
                   callerVars, pubVars, stopVars, lateVars, markerVars>>

\* for chunk in response.iter_content(...): the next n bytes arrive
Recv(t, n) ==
    /\ pc[t] = "recv"
    /\ n \in 1..Len(rest[t])
    /\ chunk' = [chunk EXCEPT ![t] = Slice(rest[t], 0, n)]
    /\ rest' = [rest EXCEPT ![t] = SliceFrom(rest[t], n)]
    /\ pc' = [pc EXCEPT ![t] = "check"]
    /\ lateChunk' = [lateChunk EXCEPT ![t] = stopCleared]
    /\ UNCHANGED <<stream, objVars, buffer, boundary, emitted, cause, callerVars,
                   pubVars, stopVars, appendedLate, markerVars>>

\* the server closes the connection: iter_content is exhausted
EndOfStream(t) ==
    /\ pc[t] = "recv"
    /\ rest[t] = <<>>
    /\ Finish(t, "eos")
    /\ UNCHANGED <<stream, frame, thread, nstarts, rest, chunk, buffer, boundary,
                   emitted, callerVars, pubVars, stopVars, lateVars, markerVars>>

\* the read times out or the connection is reset: iter_content raises
TransportError(t) ==
    /\ pc[t] = "recv"
    /\ Finish(t, "raise")
    /\ UNCHANGED <<stream, frame, thread, nstarts, rest, chunk, buffer, boundary,
                   emitted, callerVars, pubVars, stopVars, lateVars, markerVars>>

\* a live camera goes on sending: one more part follows the last delimiter
Refill(t) ==
    /\ pc[t] = "recv"
    /\ rest[t] = <<>>
    /\ rest' = [rest EXCEPT ![t] = LivePeriod]
    /\ UNCHANGED <<stream, objVars, pc, chunk, buffer, boundary, emitted, cause,
                   callerVars, pubVars, stopVars, lateVars, markerVars>>

\* the boundary search of one chunk: the token, or None still
ResolveBoundary(buf) ==
    IF Contains(buf, BOUNDARY_DECL) THEN DASHES \o BoundaryLine(buf) ELSE <<>>

\* CheckAppend without the test of self.running: every chunk is appended
CheckAppend_NoCheck(t) ==
    /\ pc[t] = "check"
    /\ LET buf == buffer[t] \o chunk[t] IN
       /\ buffer' = [buffer EXCEPT ![t] = buf]
       /\ chunk' = [chunk EXCEPT ![t] = <<>>]
       /\ appendedLate' = (appendedLate \/ lateChunk[t])
       /\ IF boundary[t] = <<>>
          THEN /\ boundary' = [boundary EXCEPT ![t] = ResolveBoundary(buf)]
               /\ pc' = [pc EXCEPT ![t] = "recv"]
          ELSE /\ pc' = [pc EXCEPT ![t] = "extract"]
               /\ UNCHANGED boundary
    /\ UNCHANGED <<stream, objVars, rest, emitted, cause, callerVars, pubVars,
                   stopVars, lateChunk, markerVars>>

\* 'if not self.running: break', then 'buffer += chunk' and the boundary search
CheckAppend(t) ==
    /\ pc[t] = "check"
    /\ IF ~running
       THEN /\ Finish(t, "stopped")
            /\ chunk' = [chunk EXCEPT ![t] = <<>>]
            /\ UNCHANGED <<buffer, boundary, appendedLate>>
       ELSE LET buf == buffer[t] \o chunk[t] IN
            /\ buffer' = [buffer EXCEPT ![t] = buf]
            /\ chunk' = [chunk EXCEPT ![t] = <<>>]
            /\ appendedLate' = (appendedLate \/ lateChunk[t])
            /\ IF boundary[t] = <<>>
               THEN /\ boundary' = [boundary EXCEPT ![t] = ResolveBoundary(buf)]
                    /\ pc' = [pc EXCEPT ![t] = "recv"]
               ELSE /\ pc' = [pc EXCEPT ![t] = "extract"]
                    /\ UNCHANGED boundary
            /\ UNCHANGED <<running, cause>>
    /\ UNCHANGED <<stream, frame, thread, nstarts, rest, emitted, callerVars,
                   pubVars, stopVars, lateChunk, markerVars>>

\* Publish writing the image into the slot piece by piece: a reader can see
\* the slot with its last byte still missing
Publish_Torn(img) ==
    /\ frame' = [img EXCEPT !.data = SubSeq(img.data, 1, Len(img.data) - 1)]
    /\ everPublished' = TRUE
    /\ lastPub' = img
    /\ pubDuringRead' = (pubDuringRead \/ mpc = "read2")
    /\ pubSinceRead' = TRUE
    /\ writeAfterStop' = (writeAfterStop \/ stopReturned)
    /\ writeAfterJoin' = (writeAfterJoin \/ joinedStopReturned)

\* self.frame = frame
Publish(img) ==
    /\ frame' = img
    /\ everPublished' = TRUE
    /\ lastPub' = img
    /\ pubDuringRead' = (pubDuringRead \/ mpc = "read2")
    /\ pubSinceRead' = TRUE
    /\ writeAfterStop' = (writeAfterStop \/ stopReturned)
    /\ writeAfterJoin' = (writeAfterJoin \/ joinedStopReturned)

\* Segment cutting the buffer after the boundary that ends the segment
\* instead of at it
Segment_SkipBoundary(buf, bnd) ==
    LET start         == Find(buf, bnd, 0)
        next_boundary == IF start = -1 THEN -1
                         ELSE Find(buf, bnd, start + Len(bnd))
        frame_data    == Slice(buf, start, next_boundary)
        jpeg_start    == Find(frame_data, SOI, 0)
    IN  IF next_boundary = -1
        THEN [more |-> FALSE, has_jpeg |-> FALSE, jpeg_data |-> <<>>, left |-> buf]
        ELSE [more      |-> TRUE,
              has_jpeg  |-> jpeg_start # -1,
              jpeg_data |-> IF jpeg_start = -1 THEN <<>>
                            ELSE SliceFrom(frame_data, jpeg_start),
              left      |-> SliceFrom(buf, next_boundary + Len(bnd))]

\* One pass of 'while boundary in buffer' over buffer buf: whether the loop
\* goes on (two occurrences of the boundary), the payload cut out of the
\* segment between them (has_jpeg: the segment holds a start marker), and the
\* buffer left.
Segment(buf, bnd) ==
    LET start         == Find(buf, bnd, 0)
        next_boundary == IF start = -1 THEN -1
                         ELSE Find(buf, bnd, start + Len(bnd))
        frame_data    == Slice(buf, start, next_boundary)
        jpeg_start    == Find(frame_data, SOI, 0)
    IN  IF next_boundary = -1
        THEN [more |-> FALSE, has_jpeg |-> FALSE, jpeg_data |-> <<>>, left |-> buf]
        ELSE [more      |-> TRUE,
              has_jpeg  |-> jpeg_start # -1,
              jpeg_data |-> IF jpeg_start = -1 THEN <<>>
                            ELSE SliceFrom(frame_data, jpeg_start),
              left      |-> SliceFrom(buf, next_boundary)]

\* ExtractStep without the cut of line 72: the segment is decoded, the buffer
\* is left as it was and the loop is left until the next chunk
ExtractStep_NoCut(t) ==
    /\ pc[t] = "extract"
    /\ pc' = [pc EXCEPT ![t] = "recv"]
    /\ \E seg \in {Segment(buffer[t], boundary[t])} :
       IF ~seg.more \/ ~seg.has_jpeg
       THEN UNCHANGED <<frame, emitted, pubVars>>
       ELSE /\ emitted' = [emitted EXCEPT ![t] = LogAppend(@, seg.jpeg_data)]
            /\ \E outcome \in DecodeResults(seg.jpeg_data) :
                  IF outcome = "image"
                  THEN Publish(Image(seg.jpeg_data))
                  ELSE UNCHANGED <<frame, pubVars>>
    /\ UNCHANGED <<stream, running, thread, nstarts, rest, chunk, buffer, boundary,
                   cause, callerVars, stopVars, lateVars, markerVars>>

\* one pass of 'while boundary in buffer': leave the loop, or consume the
\* segment between the first two occurrences of the boundary, decode its
\* payload and publish the image when the decoder returns one
ExtractStep(t) ==
    /\ pc[t] = "extract"
    /\ \E seg \in {Segment(buffer[t], boundary[t])} :
       IF ~seg.more
       THEN /\ pc' = [pc EXCEPT ![t] = "recv"]
            /\ UNCHANGED <<frame, buffer, emitted, pubVars>>
       ELSE /\ buffer' = [buffer EXCEPT ![t] = seg.left]
            /\ pc' = pc
            /\ IF ~seg.has_jpeg
               THEN UNCHANGED <<frame, emitted, pubVars>>
               ELSE /\ emitted' = [emitted EXCEPT ![t] = LogAppend(@, seg.jpeg_data)]
                    /\ \E outcome \in DecodeResults(seg.jpeg_data) :
                          IF outcome = "image"
                          THEN Publish(Image(seg.jpeg_data))
                          ELSE UNCHANGED <<frame, pubVars>>
    /\ UNCHANGED <<stream, running, thread, nstarts, rest, chunk, boundary, cause,
                   callerVars, stopVars, lateVars, markerVars>>

(***************************************************************************)
(* MJPEGStream: the caller thread.                                         *)
(***************************************************************************)
\* start(): set the flag, create the thread and start it
Start ==
    /\ mpc = "idle"
    /\ nstarts < MaxStarts
    /\ running' = TRUE
    /\ nstarts' = nstarts + 1
    /\ thread' = nstarts + 1
    /\ pc' = [pc EXCEPT ![nstarts + 1] = "connect"]
    /\ stopCleared' = FALSE
    /\ UNCHANGED <<stream, frame, rest, chunk, buffer, boundary, emitted, cause,
                   callerVars, pubVars, stopReturned, joinedStopReturned, lateVars,
                   markerVars>>

\* start() has been called and every thread it created has ended
ProducerEnded == thread # 0 /\ \A t \in Threads : pc[t] \in {"unborn", "dead"}

\* some producer thread has been created and has not ended
ProducerAlive == \E t \in Threads : pc[t] \notin {"unborn", "dead"}

\* read(), first load: self.frame is not None
Read1 ==
    /\ mpc = "idle"
    /\ rd_avail' = (frame # None)
    /\ rd_ended' = ProducerEnded
    /\ mpc' = "read2"
    /\ pubDuringRead' = FALSE
    /\ pubSinceRead' = FALSE
    /\ UNCHANGED <<stream, objVars, prodVars, lastRead, liveReads, everPublished,
                   lastPub, writeAfterStop, writeAfterJoin, stopVars, lateVars,
                   markerVars>>

\* read(), second load: self.frame, and the return of the pair
Read2 ==
    /\ mpc = "read2"
    /\ lastRead' = [valid |-> TRUE, avail |-> rd_avail, frame |-> frame,
                    ended |-> rd_ended]
    /\ liveReads' = IF ProducerAlive /\ ~pubDuringRead
                    THEN liveReads \cup {<<rd_avail, frame>>}
                    ELSE liveReads
    /\ mpc' = "idle"
    /\ UNCHANGED <<stream, objVars, prodVars, rd_avail, rd_ended, pubVars, stopVars,
                   lateVars, markerVars>>

\* StopBegin resetting the slot: stop() clears self.frame with the flag
StopBegin_ClearsFrame ==
    /\ mpc = "idle"
    /\ running' = FALSE
    /\ frame' = None
    /\ stopCleared' = TRUE
    /\ IF thread = 0
       THEN /\ stopReturned' = TRUE
            /\ UNCHANGED mpc
       ELSE /\ mpc' = "join"
            /\ UNCHANGED stopReturned
    /\ UNCHANGED <<stream, thread, nstarts, prodVars, rd_avail, rd_ended,
                   lastRead, liveReads, pubVars, joinedStopReturned, lateVars,
                   markerVars>>

\* stop(): clear the flag; return at once when no thread was ever created,
\* else go on to join it
StopBegin ==
    /\ mpc = "idle"
    /\ running' = FALSE
    /\ stopCleared' = TRUE
    /\ IF thread = 0
       THEN /\ stopReturned' = TRUE
            /\ UNCHANGED mpc
       ELSE /\ mpc' = "join"
            /\ UNCHANGED stopReturned
    /\ UNCHANGED <<stream, frame, thread, nstarts, prodVars, rd_avail, rd_ended,
                   lastRead, liveReads, pubVars, joinedStopReturned, lateVars,
                   markerVars>>

\* StopJoin without the join: stop() returns while the thread still runs
StopJoin_NoWait ==
    /\ mpc = "join"
    /\ mpc' = "idle"
    /\ stopReturned' = TRUE
    /\ joinedStopReturned' = TRUE
    /\ UNCHANGED <<stream, objVars, prodVars, rd_avail, rd_ended, lastRead,
                   liveReads, pubVars, stopCleared, lateVars, markerVars>>

\* stop(): self.thread.join() returns once the thread has ended
StopJoin ==
    /\ mpc = "join"
    /\ pc[thread] = "dead"
    /\ mpc' = "idle"
    /\ stopReturned' = TRUE
    /\ joinedStopReturned' = TRUE
    /\ UNCHANGED <<stream, objVars, prodVars, rd_avail, rd_ended, lastRead,
                   liveReads, pubVars, stopCleared, lateVars, markerVars>>

(***************************************************************************)
(* read_mjpeg_stream (simple_stream_viewer.py).                            *)
(***************************************************************************)
\* requests.get(...) and response.raise_for_status()
MConnect ==
    /\ m_pc = "connect"
    /\ \E r \in {"ok", "status", "raise"} :
          IF r = "ok"
          THEN /\ m_pc' = "recv"
               /\ m_rest' = m_stream
               /\ UNCHANGED m_cause
          ELSE /\ m_pc' = "ended"
               /\ m_cause' = r
               /\ UNCHANGED m_rest
    /\ UNCHANGED <<stream, objVars, prodVars, callerVars, pubVars, stopVars,
                   lateVars, m_stream, bytes_data, m_emitted, m_yielded>>

\* one pass of the for loop: the next n bytes arrive and are appended, and
\* when the buffer holds a start marker and an end marker one frame is cut
\* out, decoded and, when the decoder returns an image, yielded
MChunk(n) ==
    /\ m_pc = "recv"
    /\ n \in 1..Len(m_rest)
    /\ m_rest' = SliceFrom(m_rest, n)
    /\ LET data == bytes_data \o Slice(m_rest, 0, n)
           a    == Find(data, SOI, 0)
           b    == Find(data, EOI, 0)
           jpg  == Slice(data, a, b + 2)
       IN  IF a # -1 /\ b # -1
           THEN /\ m_emitted' = Append(m_emitted, jpg)
                /\ \E outcome \in DecodeResults(jpg) :
                      /\ bytes_data' = SliceFrom(data, b + 2)
                      /\ m_yielded' = IF outcome = "image"
                                      THEN Append(m_yielded, Image(jpg))
                                      ELSE m_yielded
                      /\ m_pc' = IF outcome = "raise" THEN "ended" ELSE "recv"
                      /\ m_cause' = IF outcome = "raise" THEN "decode" ELSE m_cause
           ELSE /\ bytes_data' = data
                /\ UNCHANGED <<m_pc, m_emitted, m_yielded, m_cause>>
    /\ UNCHANGED <<stream, objVars, prodVars, callerVars, pubVars, stopVars,
                   lateVars, m_stream>>

\* the server closes the connection: the for loop ends, the generator returns
MEndOfStream ==
    /\ m_pc = "recv"
    /\ m_rest = <<>>
    /\ m_pc' = "ended"
    /\ m_cause' = "eos"
    /\ UNCHANGED <<stream, objVars, prodVars, callerVars, pubVars, stopVars,
                   lateVars, m_stream, m_rest, bytes_data, m_emitted, m_yielded>>

\* the read times out or the connection is reset: except Exception, return
MTransportError ==
    /\ m_pc = "recv"
    /\ m_pc' = "ended"
    /\ m_cause' = "raise"
    /\ UNCHANGED <<stream, objVars, prodVars, callerVars, pubVars, stopVars,
                   lateVars, m_stream, m_rest, bytes_data, m_emitted, m_yielded>>

(***************************************************************************)
(* Specifications.                                                         *)
(***************************************************************************)
\* A caller's session with MJPEGStream, started once: start(), read() and
\* stop() against the producer, over a transport that hands over Burst bytes
\* at a time and a camera that may go on sending parts.
Init ==
    /\ stream \in SessionStreams
    /\ InitObject
    /\ InitMarker(<<>>)

\* start(), called on an object that has not been started
StartOnce == nstarts = 0 /\ Start

\* the next chunk of a session: Burst bytes, or all the bytes in flight
RecvBurst(t) ==
    \E n \in {k \in 1..Len(rest[t]) : k = Burst \/ k = Len(rest[t])} : Recv(t, n)

ProducerStep(t) ==
    \/ Connect(t)
    \/ RecvBurst(t)
    \/ EndOfStream(t)
    \/ TransportError(t)
    \/ Refill(t)
    \/ CheckAppend(t)
    \/ ExtractStep(t)

Next ==
    \/ StartOnce
    \/ Read1
    \/ Read2
    \/ StopBegin
    \/ StopJoin
    \/ \E t \in Threads : ProducerStep(t)

Spec == Init /\ [][Next]_vars

\* The session under scheduling that lets every live producer thread take
\* its next step (the transport delivers, ends or times out; the interpreter
\* runs the thread) and lets a join return once its thread has ended.
LiveSpec ==
    /\ Spec
    /\ \A t \in Threads : WF_vars(ProducerStep(t))
    /\ WF_vars(StopJoin)

\* The object under any sequence of start() and stop() calls, start() after
\* start() included, each start() creating a producer thread of its own.
InitRestart ==
    /\ stream = ScenarioStream
    /\ InitObject
    /\ InitMarker(<<>>)

NextRestart ==
    \/ Start
    \/ StopBegin
    \/ StopJoin
    \/ \E t \in Threads :
          \/ Connect(t)
          \/ RecvBurst(t)
          \/ EndOfStream(t)
          \/ TransportError(t)
          \/ CheckAppend(t)
          \/ ExtractStep(t)

SpecRestart == InitRestart /\ [][NextRestart]_vars

\* The demultiplexer alone: one producer thread, started once, fed a finite
\* stream cut into chunks in every possible way.
InitDemux ==
    /\ stream \in DemuxStreams
    /\ InitObject
    /\ InitMarker(<<>>)

RecvAny(t) == \E n \in 1..Len(rest[t]) : Recv(t, n)

NextDemux ==
    \/ StartOnce
    \/ \E t \in Threads :
          \/ Connect(t)
          \/ RecvAny(t)
          \/ EndOfStream(t)
          \/ TransportError(t)
          \/ CheckAppend(t)
          \/ ExtractStep(t)

SpecDemux == InitDemux /\ [][NextDemux]_vars

\* The marker extractor alone, fed a finite stream cut into chunks in every
\* possible way.
InitMarkerRun ==
    /\ stream = <<>>
    /\ InitObject
    /\ \E s \in MarkerStreams : InitMarker(s)

MChunkAny == \E n \in 1..Len(m_rest) : MChunk(n)

NextMarker ==
    \/ MConnect
    \/ MChunkAny
    \/ MEndOfStream
    \/ MTransportError

SpecMarker == InitMarkerRun /\ [][NextMarker]_vars

(***************************************************************************)
(* Properties.                                                             *)
(***************************************************************************)
Range(q) == {q[i] : i \in 1..Len(q)}

\* the producer thread of a session started once has read its stream to the end
Delivered == pc[1] = "dead" /\ cause[1] = "eos"

\* the multipart streams that declare their boundary and end with a delimiter
ValidMultipart == {ScenarioStream, TwoImageStream}

\* the byte cap of the buffer that the design document asks for
BufferCap == 40

\* What _read_stream hands to the decoder when the whole stream arrives as one
\* chunk: the boundary is still None when the chunk is appended, so the pass
\* ends at the 'continue' of the boundary search and the loop ends with it.
OneChunkFrames(s) == <<>>

\* C1: for a valid multipart stream with a discoverable boundary and N embedded
\* JPEG images, once the stream has been delivered in full the demultiplexer
\* has handed to the decoder exactly those N byte ranges, in order.
C1_EmitsEveryImage ==
    (Delivered /\ stream \in ValidMultipart) => emitted[1] = Images(stream)

\* C2: the frames extracted from a stream do not depend on how it is cut into
\* chunks: they are those of the delivery in one chunk, and for the stream
\* 'boundary=frame', '--frame', part headers, <B>, '--frame' they are <B> alone.
C2_ChunkIndependent ==
    (Delivered /\ stream \in ValidMultipart) =>
        /\ emitted[1] = OneChunkFrames(stream)
        /\ stream = ScenarioStream => emitted[1] = <<Jpeg(1)>>

\* C3: the byte buffer of the producer (and of the marker extractor) never
\* holds more than the configured cap.
C3_BufferWithinCap ==
    /\ \A t \in Threads : Len(buffer[t]) <= BufferCap
    /\ Len(bytes_data) <= BufferCap

\* C4: a stream without any boundary declaration still produces frames: once
\* it has been delivered in full, its images have been handed to the decoder.
C4_FallbackEmits ==
    (Delivered /\ ~Contains(stream, BOUNDARY_DECL) /\ Images(stream) # <<>>)
        => emitted[1] # <<>>

\* the images that can be published whole from the bytes the server sends
WholeImages == {Image(j) : j \in Range(Images(stream \o LivePeriod))}

\* C5: a completed read() that no assignment to self.frame has overlapped or
\* followed returns (False, None) before the first publish and (True, X) after
\* publish(X), X being the last image published; every read() returns None or
\* an image that was published whole.
C5_LatestFrame ==
    (lastRead.valid /\ mpc # "read2") =>
        /\ lastRead.frame \in WholeImages \cup {None}
        /\ ~pubSinceRead =>
              /\ lastRead.avail = everPublished
              /\ lastRead.frame = lastPub

\* C5 witness: after publish(X) and publish(Y) a read() has returned (True, Y)
\* and nothing has been published since.
C5_Witness ==
    /\ lastRead.valid
    /\ mpc = "idle"
    /\ ~pubSinceRead
    /\ lastRead.avail
    /\ lastRead.frame = Image(Jpeg(2))
    /\ emitted[1] = <<Jpeg(1), Jpeg(2)>>

\* C6 as stated: in a session started once, no assignment to self.frame
\* happens after any stop() call (first, repeated, or before start()) has
\* returned.
C6_NoWriteAfterAnyStop == ~writeAfterStop

\* C6 as amended: in a session started once, a stop() call made after start()
\* returns only when the producer thread has ended, and no assignment to
\* self.frame happens after such a call has returned.
C6_NoWriteAfterJoinedStop ==
    /\ ~writeAfterJoin
    /\ joinedStopReturned => pc[thread] = "dead"

\* C6 witness: a stop() made after start() has returned, the producer, which
\* had published a frame, having left its loop at the flag check.
C6_Witness ==
    /\ nstarts = 1
    /\ joinedStopReturned
    /\ mpc = "idle"
    /\ everPublished
    /\ cause[1] = "stopped"

\* C7: in a session started once, no chunk that arrives after stop() has
\* cleared the flag is appended to the buffer, and every stop() that waits
\* for the producer eventually returns, the producer having ended.
C7_CooperativeShutdown ==
    /\ []~appendedLate
    /\ (mpc = "join") ~> (mpc = "idle" /\ thread # 0 /\ pc[thread] = "dead")

\* C7 witness: a chunk arrived after stop() had cleared the flag and the
\* producer left its loop at the check, with that chunk not appended.
C7_Witness ==
    /\ nstarts = 1
    /\ lateChunk[1]
    /\ cause[1] = "stopped"
    /\ ~appendedLate
    /\ joinedStopReturned

\* C8: a payload on which the decoder raises is dropped and the session goes
\* on: neither the producer thread nor the generator ends because of it.
C8_DecodeFailureKeepsSession ==
    /\ \A t \in Threads : cause[t] # "decode"
    /\ m_cause # "decode"

\* the bare concatenations of JPEG images among the marker extractor's streams
BareConcatenations == {BareStream, Jpeg(1) \o Jpeg(2) \o Jpeg(3)}

\* C9: for a bare concatenation of K JPEG images, once the stream has been
\* delivered in full read_mjpeg_stream has cut out exactly the K images, in order.
C9_MarkerEmitsEveryImage ==
    (m_pc = "ended" /\ m_cause = "eos" /\ m_stream \in BareConcatenations)
        => m_emitted = Images(m_stream)

\* C10: every payload read_mjpeg_stream cuts out starts with the start marker
\* and ends with the first end marker after it; it is never empty.
C10_MarkerTieBreak ==
    \A i \in 1..Len(m_emitted) :
        LET jpg == m_emitted[i] IN
        /\ Len(jpg) >= 4
        /\ Slice(jpg, 0, 2) = SOI
        /\ Find(jpg, EOI, 2) = Len(jpg) - 2

\* the token a stream declares: the bytes between 'boundary=' and the next
\* line terminator
DeclaredToken(s) ==
    LET p == Find(s, BOUNDARY_DECL, 0) + Len(BOUNDARY_DECL)
    IN  Slice(s, p, Find(s, CRLF, p))

\* C11: for every chunking of the stream, a resolved boundary is the two
\* dashes followed by exactly the bytes between 'boundary=' and the next line
\* terminator: resolution never fixes a shorter token because the line
\* terminator had not arrived yet.
C11_BoundaryTokenValue ==
    \A t \in Threads :
        boundary[t] # <<>> => boundary[t] = DASHES \o DeclaredToken(stream)

\* the ways _read_stream ends on a connection-level failure: the status is not
\* 200, or requests.get or iter_content raises
ConnectionFailures == {"status", "raise"}

\* C12: in a session started once, when the status is not 200 or the transport
\* raises, before or during streaming, the producer thread has ended, the
\* flag self.running is False and self.frame is not assigned any more; and
\* self.running goes from True to False only when stop() clears it or the
\* producer thread ends, never at a step of the extraction loop.
C12_ConnectionFailureAborts ==
    /\ [](\A t \in Threads :
            (pc[t] = "dead" /\ cause[t] \in ConnectionFailures) => ~running)
    /\ [][ /\ (\E t \in Threads : pc[t] = "dead" /\ cause[t] \in ConnectionFailures)
                => frame' = frame
           /\ (running /\ ~running')
                => \/ ~stopCleared /\ stopCleared'
                   \/ \E t \in Threads :
                         /\ pc[t] \in {"connect", "recv", "check"}
                         /\ pc'[t] = "dead"
                         /\ cause'[t] \in ConnectionFailures \cup {"eos", "stopped"}
         ]_vars

\* C12 witness: the transport has raised during streaming, after a frame had
\* been published and without any stop(): the producer has ended and the flag
\* is False.
C12_Witness ==
    /\ pc[1] = "dead"
    /\ cause[1] = "raise"
    /\ everPublished
    /\ ~stopCleared
    /\ ~running

\* The loop 'while boundary in buffer' run to its end over buffer buf: the
\* payloads it hands to the decoder, in order, and the buffer it leaves.
RECURSIVE Drain(_, _)
Drain(buf, bnd) ==
    LET seg == Segment(buf, bnd)
    IN  IF ~seg.more
        THEN [emitted |-> <<>>, left |-> buf]
        ELSE LET r == Drain(seg.left, bnd)
             IN  [emitted |-> (IF seg.has_jpeg THEN <<seg.jpeg_data>> ELSE <<>>)
                                 \o r.emitted,
                  left    |-> r.left]

\* no entry of q occurs twice
NoDuplicates(q) == \A i, j \in 1..Len(q) : q[i] = q[j] => i = j

\* C13: the extraction loop run again over the buffer it has left, with no
\* byte appended, hands nothing to the decoder and leaves the buffer as it
\* is; and over any sequence of chunks no embedded JPEG (the images of the
\* streams are pairwise different) is handed to the decoder twice.
C13_NoDuplicateEmission ==
    \A t \in Threads :
        /\ NoDuplicates(emitted[t])
        /\ boundary[t] # <<>> =>
              LET d == Drain(buffer[t], boundary[t])
              IN  Drain(d.left, boundary[t]) = [emitted |-> <<>>, left |-> d.left]

\* C13 witness: both images of the two-image stream have been handed to the
\* decoder, the stream having been delivered in full in more than one pass of
\* the loop over the chunks.
C13_Witness ==
    /\ stream = TwoImageStream
    /\ Delivered
    /\ emitted[1] = <<Jpeg(1), Jpeg(2)>>
    /\ buffer[1] = Closing(TokFrame)

\* C14: read() tells 'session ended' apart from 'no frame yet' and 'frame
\* available': a read() called after every producer thread has ended does not
\* return a pair that a read() has returned while a producer thread was alive
\* (and no assignment to self.frame fell between its two loads).
C14_ThreeStateResult ==
    (lastRead.valid /\ lastRead.ended) =>
        <<lastRead.avail, lastRead.frame>> \notin liveReads

\* C15: whenever the producer waits for the next chunk with its boundary
\* resolved (the chunk in which it was resolved included), the buffer holds
\* fewer than two occurrences of the boundary: no complete segment is kept
\* while waiting.
C15_DrainedBetweenChunks ==
    \A t \in Threads :
        (pc[t] = "recv" /\ boundary[t] # <<>>)
            => ~Segment(buffer[t], boundary[t]).more

\* C16: a pass of the extraction loop over a buffer with two occurrences of
\* the boundary, the first at S and the next at E, leaves exactly the bytes
\* from E on, so the buffer begins with the boundary; when the segment
\* buffer[S, E) holds no start marker, nothing is handed to the decoder,
\* self.frame is not assigned and the producer goes on with the loop.
C16_SegmentConsumption ==
    [][ \A t \in Threads :
          LET buf == buffer[t]
              bnd == boundary[t]
              S   == Find(buf, bnd, 0)
              E   == IF S = -1 THEN -1 ELSE Find(buf, bnd, S + Len(bnd))
          IN  (pc[t] = "extract" /\ E # -1) =>
                /\ buffer'[t] = SliceFrom(buf, E)
                /\ Slice(buffer'[t], 0, Len(bnd)) = bnd
                /\ ~Contains(Slice(buf, S, E), SOI) =>
                      /\ emitted'[t] = emitted[t]
                      /\ frame' = frame
                      /\ pc'[t] = "extract"
                      /\ cause'[t] = cause[t]
      ]_vars

\* C16 witness: the segment without a start marker of the malformed stream
\* has been consumed: nothing was handed to the decoder and the buffer
\* begins with the delimiter of the next part.
C16_Witness ==
    /\ stream = MalformedPartStream
    /\ pc[1] = "extract"
    /\ boundary[1] = DASHES \o TokFrame
    /\ emitted[1] = <<>>
    /\ buffer[1] = Part(TokFrame, Jpeg(1)) \o Closing(TokFrame)

\* C17: every pair read() returns is consistent: its flag is true exactly
\* when its frame is an image, under every interleaving with the producer.
C17_ConsistentPair ==
    lastRead.valid => (lastRead.avail <=> lastRead.frame # None)

\* the producer threads that have been created and have not ended
AliveThreads == {t \in Threads : pc[t] \notin {"unborn", "dead"}}

\* C18: for every sequence of start() and stop() calls on one object, at most
\* one producer thread is alive at any time, and once a stop() made after
\* start() has returned (and start() has not been called since) no producer
\* thread of the object is alive.
C18_AtMostOneProducer ==
    /\ Cardinality(AliveThreads) <= 1
    /\ (thread # 0 /\ stopCleared /\ mpc = "idle") => AliveThreads = {}

\* C19: self.frame is assigned only decoded images and never goes back to
\* None, and once a read() has reported a frame available every later read()
\* reports one, whatever the decoder, stop() and the end of the producer do.
C19_AvailabilityMonotonic ==
    /\ []((lastRead.valid /\ lastRead.avail) => frame # None)
    /\ [][ /\ frame # None => frame' # None
           /\ frame' # frame => frame'.kind = "image"
           /\ (lastRead.valid /\ lastRead.avail) => lastRead'.avail
         ]_vars

\* C19 witness: a read() reported the first image available while the
\* producer was alive; the decoder then failed on the second payload, stop()
\* returned, and a read() called after the producer had ended still reports
\* the first image available.
C19_Witness ==
    /\ <<TRUE, Image(Jpeg(1))>> \in liveReads
    /\ emitted[1] = <<Jpeg(1), Jpeg(2)>>
    /\ joinedStopReturned
    /\ lastRead.valid
    /\ lastRead.ended
    /\ lastRead.avail
    /\ lastRead.frame = Image(Jpeg(1))

=============================================================================
